---- MODULE Spec2Model ----
(***************************************************************************)
(* Model of MixedRemoteViewCompositor's shared layer:                      *)
(*   - LoggerImpl (Common/Logger.cpp): the write-coalescing log sink;      *)
(*   - CaptureEngineImpl (Media/CaptureEngine.cpp): the capture session;   *)
(*   - the completion primitives of Common/AsyncOperations.h they use.     *)
(* The platform (WinRT DataWriter/stream, MediaCapture) is modelled at its *)
(* boundary: every call can succeed or fail, every asynchronous operation  *)
(* completes in a later step.                                              *)
(***************************************************************************)
EXTENDS Integers, Sequences, FiniteSets, TLC

(* ------------------------------ bounds -------------------------------- *)
\* number of non-null Log calls explored
MaxLog == 3

\* message texts handed to Log
Msgs == {"a", "b"}

\* number of MediaCapture objects InitAsync creates
MaxInits == 2

\* number of StartAsync calls that get as far as creating a sink
MaxStarts == 2

\* number of StopRecordAsync operations pending at once
MaxStops == 1

\* the same three bounds for the session with a single device and a single start
OneInit == 1
OneStart == 1
OneStop == 1

\* video profiles a device reports, and record descriptions per profile
MaxProfiles == 2
MaxDescs == 2

\* Completed(hr) calls made on a composed task before it is destroyed
MaxCompleted == 2

\* spatial references a client hands to the session
MaxRefs == 2

\* handlers a client registers on the session's Closed event
MaxHandlers == 2

(* ----------------------------- variables ------------------------------ *)
VARIABLES
    \* LoggerImpl fields (Logger.h:36-40)
    m_savingToFile,     \* boolean m_savingToFile
    m_logMessages,      \* std::vector<std::wstring> m_logMessages
    m_spDataWriter,     \* "null" or "writer" (m_spDataWriter / m_spOutputStream)
    \* platform side of the logger
    openOp,             \* the OpenAsync operation: "pending", "done" or "failed"
    writerBuf,          \* bytes written to the DataWriter and not yet stored
    ops,                \* StoreAsync / FlushAsync operations in flight
    store,              \* bytes committed to the backing stream
    \* observation of the logger
    logged,             \* every message Log accepted, in call order
    taken,              \* every message a FlushMessageQueue swapped out of the queue
    logResult,          \* HRESULT of the last Log call ("none" before the first)
    logArg,             \* argument of the last Log call
    lastFlush           \* how the last flush step ended

VARIABLES
    \* CaptureEngineImpl fields (CaptureEngine.cpp:45-55, 488, 501-502)
    _isInitialized,
    _enableAudio,
    _enableMrc,
    _videoEffectAdded,
    _audioEffectAdded,
    _captureStarted,
    _mediaCapture,                      \* 0 (nullptr) or the MediaCapture object
    _networkMediaSink,                  \* 0 (nullptr) or the sink
    _failedEventToken,                  \* <<>> (not initialized) or <<token>>
    _recordLimitExceededEventToken,
    \* the platform: per MediaCapture object
    failedSubs,         \* tokens registered on its Failed event
    limitSubs,          \* tokens registered on its RecordLimitationExceeded event
    videoFx,            \* an effect is attached to its VideoRecord stream
    audioFx,            \* an effect is attached to its Audio stream
    \* the platform: operations in flight that have a completion handler
    initOps,            \* InitializeWithSettingsAsync
    startOps,           \* StartRecordToCustomSinkAsync, with the handler's position
    stopOps,            \* StopRecordAsync
    nextDev, nextSink,                  \* devices and sinks created so far
    \* observation of the last call
    lastOp,             \* the operation or callback that ran last
    lastArgs,           \* its arguments and the platform outcomes it met
    lastResult,         \* the HRESULT it returned
    calls,              \* the platform calls it issued, in order
    closes,             \* consecutive runs of Close so far (capped at 2)
    streamed            \* the start handler has run to its end at least once

VARIABLES
    \* profile negotiation of InitAsync (CaptureEngine.cpp:255-297)
    spVideoProfiles,    \* what FindAllVideoProfiles returned
    initSettings4       \* <<>> before the loops ran, then <<what they set>>

VARIABLES
    \* one AsyncCompleteImpl (AsyncOperations.h:20-80) and its AsyncBase state
    opStatus,           \* AsyncStatus: "Started", "Completed", "Error", "Canceled"
    opErrorCode,        \* what get_ErrorCode reports
    opHandler,          \* the completed handler: "none", "then" or "wait"
    opFired,            \* invocations of the completed handler so far
    opDestroyed,        \* ~AsyncCompleteImpl has run
    completedCalls,     \* Completed(hr) calls made by the owner
    lastHr,             \* hr of the last Completed call ("none" before the first)
    \* StartAsyncThen on it (AsyncOperations.h:115-145)
    thenArg,            \* pOperation of the call: "none" (not called), "null", "op"
    thenResult,         \* HRESULT the call returned
    continuations,      \* what tFunc received, one entry per invocation
    \* SyncWait on it (AsyncOperations.h:178-224)
    waitPc,             \* "idle", "blocked" in WaitForSingleObjectEx, "returned"
    waitTimeout,        \* dwMilliseconds: "INFINITE" or "finite"
    _completedEvent,    \* the manual-reset event is set
    waitReturn          \* <<>>, then <<what SyncWait returned and what it saw>>

VARIABLES
    \* CaptureEngineImpl: the spatial reference and the closed event
    _spSpatialCoordinateSystem,         \* 0 (nullptr) or the reference last stored
    sinkSpatial,        \* per sink: the reference put on it (0: none)
    _evtClosed,         \* handlers registered on the session's Closed event
    closedInvoked       \* per handler: invocations by the last notification

logVars == <<m_savingToFile, m_logMessages, m_spDataWriter, openOp, writerBuf,
             ops, store, logged, taken, logResult, logArg, lastFlush>>

\* the session object
session == <<_isInitialized, _enableAudio, _enableMrc, _videoEffectAdded,
             _audioEffectAdded, _captureStarted, _mediaCapture, _networkMediaSink,
             _failedEventToken, _recordLimitExceededEventToken>>

\* the capture platform
platform == <<failedSubs, limitSubs, videoFx, audioFx,
              initOps, startOps, stopOps, nextDev, nextSink>>

observed == <<lastOp, lastArgs, lastResult, calls, closes, streamed>>

capVars == <<session, platform, observed>>

negVars == <<spVideoProfiles, initSettings4>>

asyncVars == <<opStatus, opErrorCode, opHandler, opFired, opDestroyed, completedCalls,
               lastHr, thenArg, thenResult, continuations,
               waitPc, waitTimeout, _completedEvent, waitReturn>>

eventVars == <<_spSpatialCoordinateSystem, sinkSpatial, _evtClosed, closedInvoked>>

vars == <<logVars, capVars, negVars, asyncVars, eventVars>>

(* ------------------------------ helpers ------------------------------- *)
IsPrefix(s, t) == Len(s) <= Len(t) /\ SubSeq(t, 1, Len(s)) = s

RemoveAt(s, i) == SubSeq(s, 1, i - 1) \o SubSeq(s, i + 1, Len(s))

RECURSIVE Written(_, _, _)
\* The messages of `messages` (from index i on) whose WriteBytes succeeded, in
\* the order of the for-each loop.
Written(messages, failed, i) ==
    IF i > Len(messages) THEN <<>>
    ELSE (IF i \in failed THEN <<>> ELSE <<messages[i]>>)
         \o Written(messages, failed, i + 1)

(* ============================ LoggerImpl ============================== *)

LogInit ==
    /\ m_savingToFile = FALSE
    /\ m_logMessages = <<>>
    /\ m_spDataWriter = "null"
    /\ openOp = "pending"
    /\ writerBuf = <<>>
    /\ ops = <<>>
    /\ store = <<>>
    /\ logged = <<>>
    /\ taken = <<>>
    /\ logResult = "none"
    /\ logArg = "none"
    /\ lastFlush = "none"

\* Log's early return: the queue is left for a later flush when no writer is
\* attached or a flush cycle is running.
LogReturnsEarly_NoFlag(writer, saving) == writer = "null"

LogReturnsEarly(writer, saving) == writer = "null" \/ saving

\* What FlushMessageQueue leaves in m_logMessages: messages.swap(m_logMessages)
\* with a fresh vector.
QueueAfterSwap_Kept(queue) == queue

QueueAfterSwap(queue) == <<>>

\* The for-each loop: hr is the result of the LAST WriteBytes.
WriteBytesHr(messages, failed) ==
    IF Len(messages) \in failed THEN "E_FAIL" ELSE "S_OK"

\* FlushMessageQueue on the queue `queue`, with `pending` the operations in
\* flight when it runs.  failed: the indices whose WriteBytes fails; storeOk:
\* StoreAsync starts; putOk: put_Completed registers writeToStoreHandler.
\* hr is the value it returns.
FlushMessageQueue(queue, pending, failed, storeOk, putOk, hr) ==
    LET messages == queue
        buf == writerBuf \o Written(messages, failed, 1)
    IN  /\ m_logMessages' = QueueAfterSwap(queue)
        /\ taken' = taken \o messages
        /\ IF Len(messages) = 0
           THEN /\ m_savingToFile' = FALSE
                /\ hr = "S_OK"
                /\ lastFlush' = "empty"
                /\ ops' = pending
                /\ UNCHANGED writerBuf
           ELSE IF WriteBytesHr(messages, failed) # "S_OK" \/ ~storeOk
           THEN /\ hr = "E_FAIL"
                /\ lastFlush' = "failed"
                /\ writerBuf' = buf
                /\ ops' = pending
                /\ UNCHANGED m_savingToFile
           ELSE /\ m_savingToFile' = TRUE
                /\ writerBuf' = <<>>
                /\ ops' = Append(pending, [kind |-> "store", data |-> buf, handler |-> putOk])
                /\ hr = IF putOk THEN "S_OK" ELSE "E_FAIL"
                /\ lastFlush' = IF putOk THEN "started" ELSE "failed"

\* LoggerImpl::Log with a null message.
LogNull ==
    /\ logArg' = "null"
    /\ logResult' = "E_INVALIDARG"
    /\ UNCHANGED <<m_savingToFile, m_logMessages, m_spDataWriter, openOp, writerBuf,
                   ops, store, logged, taken, lastFlush>>
    /\ UNCHANGED <<capVars, negVars, asyncVars, eventVars>>

\* LoggerImpl::Log(message), message non-null.
Log(m, failed, storeOk, putOk) ==
    /\ Len(logged) < MaxLog
    /\ logArg' = m
    /\ logged' = Append(logged, m)
    /\ IF LogReturnsEarly(m_spDataWriter, m_savingToFile)
       THEN /\ m_logMessages' = Append(m_logMessages, m)
            /\ logResult' = "S_OK"
            /\ UNCHANGED <<m_savingToFile, writerBuf, ops, taken, lastFlush>>
       ELSE \E hr \in {"S_OK", "E_FAIL"} :
                /\ FlushMessageQueue(Append(m_logMessages, m), ops, failed, storeOk, putOk, hr)
                /\ logResult' = hr
    /\ UNCHANGED <<m_spDataWriter, openOp, store>>
    /\ UNCHANGED <<capVars, negVars, asyncVars, eventVars>>

\* LoggerImpl::OnFileOpened: the completion of OpenAsync.  resOk: GetResults,
\* GetOutputStreamAt and CreateDataWriter all succeed.
OnFileOpened(resOk, failed, storeOk, putOk) ==
    /\ openOp = "pending"
    /\ IF ~resOk
       THEN /\ openOp' = "failed"
            /\ UNCHANGED <<m_savingToFile, m_logMessages, m_spDataWriter, writerBuf,
                           ops, taken, lastFlush>>
       ELSE /\ openOp' = "done"
            /\ m_spDataWriter' = "writer"
            /\ \E hr \in {"S_OK", "E_FAIL"} :
                   FlushMessageQueue(m_logMessages, ops, failed, storeOk, putOk, hr)
    /\ UNCHANGED <<store, logged, logResult, logArg>>
    /\ UNCHANGED <<capVars, negVars, asyncVars, eventVars>>

\* The StoreAsync operation i completes; resOk: its GetResults succeeds (the
\* bytes reached the stream).  The writeToStoreHandler then starts FlushAsync
\* (flushOk) and registers cbFlush on it (putOk).
StoreCompleted(i, resOk, flushOk, putOk) ==
    /\ i \in 1..Len(ops)
    /\ ops[i].kind = "store"
    /\ store' = IF resOk THEN store \o ops[i].data ELSE store
    /\ IF ops[i].handler /\ resOk /\ flushOk
       THEN /\ ops' = Append(RemoveAt(ops, i),
                             [kind |-> "flush", data |-> <<>>, handler |-> putOk])
            /\ lastFlush' = IF putOk THEN lastFlush ELSE "failed"
       ELSE /\ ops' = RemoveAt(ops, i)
            /\ lastFlush' = IF ops[i].handler THEN "failed" ELSE lastFlush
    /\ UNCHANGED <<m_savingToFile, m_logMessages, m_spDataWriter, openOp, writerBuf,
                   logged, taken, logResult, logArg>>
    /\ UNCHANGED <<capVars, negVars, asyncVars, eventVars>>

\* The FlushAsync operation i completes: cbFlush takes the lock and calls
\* FlushMessageQueue again (the status is only asserted).
FlushCompleted(i, failed, storeOk, putOk) ==
    /\ i \in 1..Len(ops)
    /\ ops[i].kind = "flush"
    /\ IF ops[i].handler
       THEN \E hr \in {"S_OK", "E_FAIL"} :
                FlushMessageQueue(m_logMessages, RemoveAt(ops, i), failed, storeOk, putOk, hr)
       ELSE /\ ops' = RemoveAt(ops, i)
            /\ UNCHANGED <<m_savingToFile, m_logMessages, writerBuf, taken, lastFlush>>
    /\ UNCHANGED <<m_spDataWriter, openOp, store, logged, logResult, logArg>>
    /\ UNCHANGED <<capVars, negVars, asyncVars, eventVars>>

(* ------------------------ logger specifications ----------------------- *)
Fails == SUBSET (1..MaxLog)

LogNext ==
    \/ \E m \in Msgs, failed \in Fails, storeOk \in BOOLEAN, putOk \in BOOLEAN :
           Log(m, failed, storeOk, putOk)
    \/ LogNull
    \/ \E resOk \in BOOLEAN, failed \in Fails, storeOk \in BOOLEAN, putOk \in BOOLEAN :
           OnFileOpened(resOk, failed, storeOk, putOk)
    \/ \E i \in 1..Len(ops), resOk \in BOOLEAN, flushOk \in BOOLEAN, putOk \in BOOLEAN :
           StoreCompleted(i, resOk, flushOk, putOk)
    \/ \E i \in 1..Len(ops), failed \in Fails, storeOk \in BOOLEAN, putOk \in BOOLEAN :
           FlushCompleted(i, failed, storeOk, putOk)

\* The logger with every platform call and completion succeeding.
LogOk(m) == Log(m, {}, TRUE, TRUE)
OnFileOpenedOk == OnFileOpened(TRUE, {}, TRUE, TRUE)
StoreCompletedOk == \E i \in 1..Len(ops) : StoreCompleted(i, TRUE, TRUE, TRUE)
FlushCompletedOk == \E i \in 1..Len(ops) : FlushCompleted(i, {}, TRUE, TRUE)

LogNextOk ==
    \/ \E m \in Msgs : LogOk(m)
    \/ LogNull
    \/ OnFileOpenedOk
    \/ StoreCompletedOk
    \/ FlushCompletedOk

(* ================= InitAsync: profile negotiation ===================== *)
\* A record media description: width, height and the frame rate in half
\* frames per second (59 is 29.5 fps).
Desc(w, h, r2) == [width |-> w, height |-> h, rate2 |-> r2]

\* The descriptions the devices of the model report.
Descs ==
    { Desc(1280, 720, 59),      \* exactly at the three thresholds (29.5 rounds to 30)
      Desc(1920, 1080, 60),     \* above them
      Desc(1279, 1080, 60),     \* too narrow
      Desc(1920, 719, 60),      \* too low
      Desc(1920, 1080, 61) }    \* 30.5 fps rounds to 31

SeqsUpTo(S, n) == UNION { [1..k -> S] : k \in 0..n }

\* What get_SupportedRecordMediaDescription can return for a profile: its
\* descriptions in order.
DescLists == SeqsUpTo(Descs, MaxDescs)

\* round(frameRate) of <cmath>: halves round away from zero.
Round(r2) == (r2 + 1) \div 2

\* The predicate of line 288.
MatchesCapture(desc) ==
    desc.width >= 1280 /\ desc.height >= 720 /\ Round(desc.rate2) = 30

\* Line 274: once captureProfileFound is set, the remaining descriptions are
\* not looked at.
SkipsDescription_Never(captureProfileFound) == FALSE

SkipsDescription(captureProfileFound) == captureProfileFound

\* The initialization settings before the loops: no description, no profile.
NoProfile == [captureProfileFound |-> FALSE, profile |-> 0, description |-> 0]

RECURSIVE ScanDescriptions(_, _, _, _)
\* The inner loop (lines 272-296) over profile j, from description i on.
ScanDescriptions(profiles, j, i, st) ==
    IF i > Len(profiles[j]) THEN st
    ELSE ScanDescriptions(profiles, j, i + 1,
             IF ~SkipsDescription(st.captureProfileFound) /\ MatchesCapture(profiles[j][i])
             THEN [captureProfileFound |-> TRUE, profile |-> j, description |-> i]
             ELSE st)

RECURSIVE ScanProfiles(_, _, _)
\* The outer loop (lines 262-297), from profile j on.
ScanProfiles(profiles, j, st) ==
    IF j > Len(profiles) THEN st
    ELSE ScanProfiles(profiles, j + 1, ScanDescriptions(profiles, j, 1, st))

\* The profile and description put into the settings, by position.
Negotiate(profiles) == ScanProfiles(profiles, 1, NoProfile)

NegInit == spVideoProfiles = <<>> /\ initSettings4 = <<>>

\* Any list of profiles FindAllVideoProfiles can return, in order.
NegInitAny ==
    /\ \E numProfiles \in 0..MaxProfiles : spVideoProfiles \in [1..numProfiles -> DescLists]
    /\ initSettings4 = <<>>

\* The two loops of InitAsync run on the reported profiles.
NegotiateProfile ==
    /\ initSettings4 = <<>>
    /\ initSettings4' = <<Negotiate(spVideoProfiles)>>
    /\ UNCHANGED spVideoProfiles
    /\ UNCHANGED <<logVars, capVars, asyncVars, eventVars>>

(* ====================== AsyncOperations.h ============================= *)
AsyncInit ==
    /\ opStatus = "Started"         \* RuntimeClassInitialize: AsyncBase::Start()
    /\ opErrorCode = "S_OK"
    /\ opHandler = "none"
    /\ opFired = 0
    /\ opDestroyed = FALSE
    /\ completedCalls = 0
    /\ lastHr = "none"
    /\ thenArg = "none"
    /\ thenResult = "none"
    /\ continuations = <<>>
    /\ waitPc = "idle"
    /\ waitTimeout = "INFINITE"
    /\ _completedEvent = FALSE
    /\ waitReturn = <<>>

FAILED(hr) == hr # "S_OK"

\* Line 73: Completed(hr) tries the transition to Error for a failure only.
TransitionsToError_Always(hr) == TRUE

TransitionsToError(hr) == FAILED(hr)

\* AsyncBase::TryTransitionToError (line 75): the error code is kept if none
\* was set; the status changes only from Started.
StatusAfterError(status) == IF status = "Started" THEN "Error" ELSE status
ErrorCodeAfterError(code, hr) == IF code = "S_OK" THEN hr ELSE code

\* AsyncBase::TryTransitionToCompleted, the first step of FireCompletion.
StatusAfterCompleted(status) == IF status = "Started" THEN "Completed" ELSE status

\* The HRESULT a StartAsyncThen callback hands to tFunc (lines 126-140).
UnifiedResult(status, code) == IF status # "Completed" THEN code ELSE "S_OK"

\* The completed handler is invoked with the operation in (status, code):
\* the StartAsyncThen callback runs tFunc, AsyncEventDelegate::Invoke sets the
\* event (lines 184, 206).
InvokeHandler(handler, status, code) ==
    /\ opFired' = opFired + 1
    /\ continuations' = IF handler = "then"
                        THEN Append(continuations,
                                    [hr |-> UnifiedResult(status, code), status |-> status])
                        ELSE continuations
    /\ _completedEvent' = (_completedEvent \/ handler = "wait")

\* AsyncCompleteImpl::Completed(hr) (lines 69-79); AsyncBase::FireCompletion
\* invokes the handler the first time it finds one.
CompletedBody(hr) ==
    LET status1 == IF TransitionsToError(hr) THEN StatusAfterError(opStatus) ELSE opStatus
        code1 == IF TransitionsToError(hr) THEN ErrorCodeAfterError(opErrorCode, hr)
                 ELSE opErrorCode
        status2 == StatusAfterCompleted(status1)
    IN  /\ opStatus' = status2
        /\ opErrorCode' = code1
        /\ lastHr' = hr
        /\ IF opHandler # "none" /\ opFired = 0
           THEN InvokeHandler(opHandler, status2, code1)
           ELSE UNCHANGED <<opFired, continuations, _completedEvent>>

\* The owner of the task completes it.
Completed(hr) ==
    /\ ~opDestroyed
    /\ CompletedBody(hr)
    /\ completedCalls' = completedCalls + 1
    /\ UNCHANGED <<opHandler, opDestroyed, thenArg, thenResult, waitPc, waitTimeout,
                   waitReturn>>
    /\ UNCHANGED <<logVars, capVars, negVars, eventVars>>

\* ~AsyncCompleteImpl (lines 35-38), once nothing waits on the task.
Destroy ==
    /\ ~opDestroyed
    /\ waitPc # "blocked"
    /\ CompletedBody("E_UNEXPECTED")
    /\ opDestroyed' = TRUE
    /\ UNCHANGED <<opHandler, completedCalls, thenArg, thenResult, waitPc, waitTimeout,
                   waitReturn>>
    /\ UNCHANGED <<logVars, capVars, negVars, eventVars>>

\* IAsyncInfo::Cancel, which the task inherits from AsyncBase (line 25).
Cancel ==
    /\ ~opDestroyed
    /\ opStatus' = IF opStatus = "Started" THEN "Canceled" ELSE opStatus
    /\ UNCHANGED <<opErrorCode, opHandler, opFired, opDestroyed, completedCalls, lastHr,
                   thenArg, thenResult, continuations, waitPc, waitTimeout,
                   _completedEvent, waitReturn>>
    /\ UNCHANGED <<logVars, capVars, negVars, eventVars>>

\* put_Completed (lines 46-50, AsyncBase::PutOnComplete): the handler can be
\* set once; set on a task that is no longer Started, it is invoked at once.
PutOnComplete_NoEarlyFire(handler) ==
    IF opHandler # "none"
    THEN UNCHANGED <<opHandler, opFired, continuations, _completedEvent>>
    ELSE /\ opHandler' = handler
         /\ UNCHANGED <<opFired, continuations, _completedEvent>>

PutOnComplete(handler) ==
    IF opHandler # "none"
    THEN UNCHANGED <<opHandler, opFired, continuations, _completedEvent>>
    ELSE /\ opHandler' = handler
         /\ IF opStatus # "Started" /\ opFired = 0
            THEN InvokeHandler(handler, opStatus, opErrorCode)
            ELSE UNCHANGED <<opFired, continuations, _completedEvent>>

PutOnCompleteHr == IF opHandler # "none" THEN "E_ILLEGAL_DELEGATE_ASSIGNMENT" ELSE "S_OK"

\* Line 118: the null check of StartAsyncThen.
IsNullOperation_Never(pOperation) == FALSE

IsNullOperation(pOperation) == pOperation = "null"

\* StartAsyncThen(pOperation, tFunc) (lines 115-145).
StartAsyncThen(pOperation) ==
    /\ thenArg = "none"
    /\ ~opDestroyed
    /\ thenArg' = pOperation
    /\ IF IsNullOperation(pOperation)
       THEN /\ thenResult' = "E_INVALIDARG"
            /\ UNCHANGED <<opHandler, opFired, continuations, _completedEvent>>
       ELSE /\ thenResult' = PutOnCompleteHr
            /\ PutOnComplete("then")
    /\ UNCHANGED <<opStatus, opErrorCode, opDestroyed, completedCalls, lastHr,
                   waitPc, waitTimeout, waitReturn>>
    /\ UNCHANGED <<logVars, capVars, negVars, eventVars>>

\* What SyncWait returned, the wait result it got and the status the
\* operation had when it returned.
WaitReturned(hr, dwWait) == <<[hr |-> hr, dwWait |-> dwWait, status |-> opStatus]>>

\* AsyncEventDelegate::SyncWait(pOperation, dwMilliseconds), up to the wait
\* (lines 213-219).
SyncWait(dwMilliseconds) ==
    /\ waitPc = "idle"
    /\ ~opDestroyed
    /\ waitTimeout' = dwMilliseconds
    /\ IF FAILED(PutOnCompleteHr)
       THEN /\ waitPc' = "returned"
            /\ waitReturn' = WaitReturned(PutOnCompleteHr, "none")
            /\ UNCHANGED <<opHandler, opFired, continuations, _completedEvent>>
       ELSE /\ waitPc' = "blocked"
            /\ PutOnComplete("wait")
            /\ UNCHANGED waitReturn
    /\ UNCHANGED <<opStatus, opErrorCode, opDestroyed, completedCalls, lastHr,
                   thenArg, thenResult>>
    /\ UNCHANGED <<logVars, capVars, negVars, eventVars>>

\* The values WaitForSingleObjectEx(event, dwMilliseconds, TRUE) can return.
WaitResults == {"WAIT_OBJECT_0", "WAIT_IO_COMPLETION", "WAIT_TIMEOUT", "WAIT_FAILED"}

\* GetLastError() after the wait: WaitForSingleObjectEx sets it for
\* WAIT_FAILED only; after WAIT_TIMEOUT it is whatever the thread's last error
\* was, ERROR_SUCCESS included.
LastErrors(dwWait) ==
    IF dwWait = "WAIT_FAILED" THEN {"ERROR_INVALID_HANDLE"}
    ELSE {"ERROR_SUCCESS", "ERROR_INVALID_HANDLE"}

HRESULT_FROM_WIN32(err) == IF err = "ERROR_SUCCESS" THEN "S_OK" ELSE "E_HANDLE"

\* Lines 220-223: what SyncWait makes of the wait's result.
SyncWaitHr(dwWait, err) ==
    IF dwWait = "WAIT_IO_COMPLETION" \/ dwWait = "WAIT_OBJECT_0" THEN "S_OK"
    ELSE HRESULT_FROM_WIN32(err)

\* WaitForSingleObjectEx returns and SyncWait with it (lines 219-223): the
\* event is set, an APC ran on the waiting thread, the timeout ran out, or the
\* wait failed.
WaitReturns(dwWait, err) ==
    /\ waitPc = "blocked"
    /\ dwWait = "WAIT_OBJECT_0" => _completedEvent
    /\ dwWait = "WAIT_TIMEOUT" => (waitTimeout = "finite" /\ ~_completedEvent)
    /\ err \in LastErrors(dwWait)
    /\ dwWait \in {"WAIT_OBJECT_0", "WAIT_IO_COMPLETION"} => err = "ERROR_SUCCESS"
    /\ waitPc' = "returned"
    /\ waitReturn' = WaitReturned(SyncWaitHr(dwWait, err), dwWait)
    /\ UNCHANGED <<opStatus, opErrorCode, opHandler, opFired, opDestroyed, completedCalls,
                   lastHr, thenArg, thenResult, continuations, waitTimeout,
                   _completedEvent>>
    /\ UNCHANGED <<logVars, capVars, negVars, eventVars>>

AsyncNext ==
    \/ \E hr \in {"S_OK", "E_FAIL"} : completedCalls < MaxCompleted /\ Completed(hr)
    \/ Destroy
    \/ Cancel
    \/ \E pOperation \in {"null", "op"} : StartAsyncThen(pOperation)
    \/ \E dwMilliseconds \in {"INFINITE", "finite"} : SyncWait(dwMilliseconds)
    \/ \E dwWait \in WaitResults, err \in {"ERROR_SUCCESS", "ERROR_INVALID_HANDLE"} :
           WaitReturns(dwWait, err)

(* ========================= CaptureEngineImpl ========================== *)
Devs == 1..MaxInits

\* The sinks StartAsync creates, the spatial references and the handlers of
\* the Closed event.
Sinks == 1..MaxStarts
Refs == 1..MaxRefs
Handlers == 1..MaxHandlers

\* The constructor (lines 45-55): no spatial reference, no Closed handler.
EventInit ==
    /\ _spSpatialCoordinateSystem = 0
    /\ sinkSpatial = [k \in Sinks |-> 0]
    /\ _evtClosed = {}
    /\ closedInvoked = [h \in Handlers |-> 0]

CapInit ==
    /\ _isInitialized = TRUE
    /\ _enableAudio = FALSE
    /\ _enableMrc = FALSE
    /\ _videoEffectAdded = FALSE
    /\ _audioEffectAdded = FALSE
    /\ _captureStarted = FALSE
    /\ _mediaCapture = 0
    /\ _networkMediaSink = 0
    /\ _failedEventToken = <<>>
    /\ _recordLimitExceededEventToken = <<>>
    /\ failedSubs = [d \in Devs |-> {}]
    /\ limitSubs = [d \in Devs |-> {}]
    /\ videoFx = [d \in Devs |-> FALSE]
    /\ audioFx = [d \in Devs |-> FALSE]
    /\ initOps = <<>>
    /\ startOps = <<>>
    /\ stopOps = <<>>
    /\ nextDev = 0
    /\ nextSink = 0
    /\ lastOp = "none"
    /\ lastArgs = <<>>
    /\ lastResult = "none"
    /\ calls = <<>>
    /\ closes = 0
    /\ streamed = FALSE

\* How an operation ends: what it returned and the platform calls it issued.
\* Close, run directly or from Uninitialize or the stop handler, counts in closes.
Returns(op, args, hr, issued, closeRan) ==
    /\ lastOp' = op
    /\ lastArgs' = args
    /\ lastResult' = hr
    /\ calls' = issued
    /\ closes' = IF closeRan THEN (IF closes = 0 THEN 1 ELSE 2) ELSE 0
    /\ streamed' = (streamed \/ op = "StartCompletedSpatial")

\* A null dereference ended the process: nothing runs afterwards.
Alive == lastResult # "crash"

\* Outcomes of calling a method through a null ComPtr (undefined behaviour).
UndefinedOutcomes == {"crash", "E_FAIL", "S_OK"}

\* Tokens: each event hands the k-th StartAsync that registers on it the token
\* k (0 is no token of either event).
Tokens == 0..MaxStarts

\* Values an EventRegistrationToken member holds when read: the constructor
\* does not initialize _failedEventToken / _recordLimitExceededEventToken.
TokenRead(t) == IF t = <<>> THEN Tokens ELSE {t[1]}

\* Subscriptions of the session on the platform's two events.
RECURSIVE SubCountUpTo(_)
SubCountUpTo(d) ==
    IF d = 0 THEN 0
    ELSE Cardinality(failedSubs[d]) + Cardinality(limitSubs[d]) + SubCountUpTo(d - 1)

SubCount == SubCountUpTo(MaxInits)

(* ------------------------------ Close --------------------------------- *)
\* _mediaCapture after Close's teardown: Reset() and = nullptr.
MediaCaptureAfterClose_Kept(mc) == mc

MediaCaptureAfterClose(mc) == 0

\* The platform calls Close issues on a held device.
CloseCalls ==
    <<"remove_Failed", "remove_RecordLimitationExceeded">>
    \o (IF _videoEffectAdded THEN <<"ClearEffectsAsync(VideoRecord)">> ELSE <<>>)
    \o (IF _audioEffectAdded THEN <<"ClearEffectsAsync(Audio)">> ELSE <<>>)
    \o <<"Close">>

\* What the platform does with Close's calls on the held device: rmF, rmL are
\* the tokens remove_Failed / remove_RecordLimitationExceeded take off the
\* events (0: the call failed or the token is not registered there); okV, okA:
\* the ClearEffectsAsync calls succeed; okC: IClosable::Close succeeds (the
\* session sees nothing of the device after it).  Every failure is only logged
\* (LOG_RESULT).
CloseOutcomes ==
    IF _mediaCapture = 0
    THEN {[rmF |-> 0, rmL |-> 0, okV |-> TRUE, okA |-> TRUE, okC |-> TRUE]}
    ELSE [rmF : {0} \cup (TokenRead(_failedEventToken) \cap failedSubs[_mediaCapture]),
          rmL : {0} \cup (TokenRead(_recordLimitExceededEventToken)
                          \cap limitSubs[_mediaCapture]),
          okV : IF _videoEffectAdded THEN BOOLEAN ELSE {TRUE},
          okA : IF _audioEffectAdded THEN BOOLEAN ELSE {TRUE},
          okC : BOOLEAN]

\* CaptureEngineImpl::Close on the session fields and the platform; leaves
\* initOps, startOps, stopOps to the caller.
CloseBody_ReturnsOnFailure(out) ==
    IF _mediaCapture = 0
    THEN UNCHANGED <<_captureStarted, _mediaCapture, failedSubs, limitSubs,
                     videoFx, audioFx>>
    ELSE LET d == _mediaCapture IN
         /\ _captureStarted' = FALSE
         /\ failedSubs' = [failedSubs EXCEPT ![d] = @ \ {out.rmF}]
         /\ limitSubs' = [limitSubs EXCEPT ![d] = @ \ {out.rmL}]
         /\ videoFx' = [videoFx EXCEPT ![d] = IF _videoEffectAdded /\ out.okV THEN FALSE ELSE @]
         /\ audioFx' = [audioFx EXCEPT ![d] = IF _audioEffectAdded /\ out.okA THEN FALSE ELSE @]
         /\ _mediaCapture' = IF out.okV /\ out.okA /\ out.okC
                             THEN MediaCaptureAfterClose(_mediaCapture)
                             ELSE _mediaCapture

CloseBody(out) ==
    IF _mediaCapture = 0
    THEN UNCHANGED <<_captureStarted, _mediaCapture, failedSubs, limitSubs,
                     videoFx, audioFx>>
    ELSE LET d == _mediaCapture IN
         /\ _captureStarted' = FALSE
         /\ failedSubs' = [failedSubs EXCEPT ![d] = @ \ {out.rmF}]
         /\ limitSubs' = [limitSubs EXCEPT ![d] = @ \ {out.rmL}]
         /\ videoFx' = [videoFx EXCEPT ![d] = IF _videoEffectAdded /\ out.okV THEN FALSE ELSE @]
         /\ audioFx' = [audioFx EXCEPT ![d] = IF _audioEffectAdded /\ out.okA THEN FALSE ELSE @]
         /\ _mediaCapture' = MediaCaptureAfterClose(_mediaCapture)

\* CaptureEngineImpl::Close, called by the client.
Close(out) ==
    /\ Alive
    /\ out \in CloseOutcomes
    /\ CloseBody(out)
    /\ Returns("Close", <<>>, "S_OK", IF _mediaCapture = 0 THEN <<>> ELSE CloseCalls, TRUE)
    /\ UNCHANGED <<_isInitialized, _enableAudio, _enableMrc, _videoEffectAdded,
                   _audioEffectAdded, _networkMediaSink, _failedEventToken,
                   _recordLimitExceededEventToken>>
    /\ UNCHANGED <<initOps, startOps, stopOps, nextDev, nextSink>>
    /\ UNCHANGED <<logVars, negVars, asyncVars, eventVars>>

\* CaptureEngineImpl::Uninitialize (also the destructor's path).
Uninitialize(out) ==
    /\ Alive
    /\ out \in CloseOutcomes
    /\ IF ~_isInitialized
       THEN /\ Returns("Uninitialize", <<>>, "S_OK", <<>>, FALSE)
            /\ UNCHANGED <<_isInitialized, _captureStarted, _mediaCapture, failedSubs,
                           limitSubs, videoFx, audioFx>>
       ELSE /\ _isInitialized' = FALSE
            /\ CloseBody(out)
            /\ Returns("Uninitialize", <<>>, "S_OK",
                       IF _mediaCapture = 0 THEN <<>> ELSE CloseCalls, TRUE)
    /\ UNCHANGED <<_enableAudio, _enableMrc, _videoEffectAdded,
                   _audioEffectAdded, _networkMediaSink, _failedEventToken,
                   _recordLimitExceededEventToken>>
    /\ UNCHANGED <<initOps, startOps, stopOps, nextDev, nextSink>>
    /\ UNCHANGED <<logVars, negVars, asyncVars, eventVars>>

(* ----------------------------- InitAsync ------------------------------ *)
\* FindDeviceId on an enumeration that returned count devices (lines 29-31).
FindDeviceId_AnyCount(count) == "S_OK"

FindDeviceId(count) == IF count > 0 THEN "S_OK" ELSE "ERROR_DEVICE_NOT_CONNECTED"

\* Where InitAsync can stop: the enumeration of video devices returns none,
\* the enumeration of audio devices returns none, another IFR step fails
\* (E_FAIL stands for its HRESULT); "none": every step succeeds.
InitFailPoints == {"none", "videoDevice", "audioDevice", "step"}

\* The number of devices the enumeration of a device class returns.
DeviceCount(class, failAt) == IF failAt = class THEN 0 ELSE 1

\* The profile lists the session's devices report: none, one profile below
\* the thresholds, one profile at 1920x1080 and 30 fps.
SessionProfiles ==
    { <<>>, << <<Desc(1279, 1080, 60)>> >>, << <<Desc(1920, 1080, 60)>> >> }

\* HRESULT of InitAsync's synchronous part (lines 214-346).
InitAsyncHr(enableAudio, failAt) ==
    IF FindDeviceId(DeviceCount("videoDevice", failAt)) # "S_OK"
    THEN FindDeviceId(DeviceCount("videoDevice", failAt))             \* lines 221-223
    ELSE IF enableAudio /\ FindDeviceId(DeviceCount("audioDevice", failAt)) # "S_OK"
    THEN FindDeviceId(DeviceCount("audioDevice", failAt))             \* lines 225-230
    ELSE IF failAt = "step" THEN "E_FAIL"
    ELSE "S_OK"

\* CaptureEngineImpl::InitAsync(enableAudio, action).  profiles is read only
\* when both enumerations found a device; captureProfileFound is not looked
\* at after the loops.
InitAsync(enableAudio, failAt, profiles) ==
    LET hr == InitAsyncHr(enableAudio, failAt)
        args == [enableAudio |-> enableAudio, failAt |-> failAt,
                 captureProfileFound |-> Negotiate(profiles).captureProfileFound]
    IN
    /\ Alive
    /\ failAt = "audioDevice" => enableAudio
    /\ failAt # "none" => profiles = <<>>
    /\ _enableAudio' = enableAudio
    /\ IF hr = "S_OK"
       THEN /\ nextDev' = nextDev + 1
            /\ initOps' = Append(initOps, [dev |-> nextDev + 1])
            /\ Returns("InitAsync", args, "S_OK", <<"InitializeWithSettingsAsync">>, FALSE)
       ELSE /\ UNCHANGED <<nextDev, initOps>>
            /\ Returns("InitAsync", args, hr, <<>>, FALSE)
    /\ UNCHANGED <<_isInitialized, _enableMrc, _videoEffectAdded, _audioEffectAdded,
                   _captureStarted, _mediaCapture, _networkMediaSink,
                   _failedEventToken, _recordLimitExceededEventToken>>
    /\ UNCHANGED <<failedSubs, limitSubs, videoFx, audioFx,
                   startOps, stopOps, nextSink>>
    /\ UNCHANGED <<logVars, negVars, asyncVars, eventVars>>

\* initHandler: the completion of InitializeWithSettingsAsync.  status is the
\* AsyncStatus the platform reports; the handler only asserts on it (line 315),
\* so a debug build stops there and a release build goes on.  ok: every IFC
\* step of the handler succeeds and the device is stored in _mediaCapture.
\* The result is the HRESULT handed to spInitAction->Completed (line 341).
InitCompleted(i, status, ok, asserts) ==
    LET args == [status |-> status, ok |-> ok] IN
    /\ Alive
    /\ i \in 1..Len(initOps)
    /\ asserts => status # "Completed"
    /\ initOps' = RemoveAt(initOps, i)
    /\ IF asserts
       THEN /\ Returns("InitCompleted", args, "crash", <<>>, FALSE)
            /\ UNCHANGED _mediaCapture
       ELSE /\ _mediaCapture' = IF ok THEN initOps[i].dev ELSE _mediaCapture
            /\ Returns("InitCompleted", args, IF ok THEN "S_OK" ELSE "E_FAIL", <<>>, FALSE)
    /\ UNCHANGED <<_isInitialized, _enableAudio, _enableMrc, _videoEffectAdded,
                   _audioEffectAdded, _captureStarted, _networkMediaSink,
                   _failedEventToken, _recordLimitExceededEventToken>>
    /\ UNCHANGED <<failedSubs, limitSubs, videoFx, audioFx,
                   startOps, stopOps, nextDev, nextSink>>
    /\ UNCHANGED <<logVars, negVars, asyncVars, eventVars>>

\* The AsyncStatus values a completion handler can be invoked with.
TerminalStatus == {"Completed", "Error", "Canceled"}

(* ----------------------------- StartAsync ----------------------------- *)
\* The steps of StartAsync that can fail, in program order; "none": no step
\* fails.  "audioTimeout" is the 500 ms SyncWait on AddAudioEffectAsync
\* running out while the platform still attaches the effect.
StartFailPoints ==
    {"none", "sink", "videoEffect", "audioEffect", "audioTimeout", "extension",
     "addFailed", "addLimit", "makeAction", "startRecord", "putCompleted"}

StepIndex(p) ==
    CASE p = "sink"         -> 1    \* lines 363-413
      [] p = "videoEffect"  -> 2    \* lines 419-439
      [] p = "audioEffect"  -> 3    \* lines 446-457
      [] p = "audioTimeout" -> 3    \* line 454
      [] p = "extension"    -> 4    \* line 467
      [] p = "addFailed"    -> 5    \* line 473
      [] p = "addLimit"     -> 6    \* line 478
      [] p = "makeAction"   -> 7    \* line 481
      [] p = "startRecord"  -> 8    \* line 498
      [] p = "putCompleted" -> 9    \* line 499
      [] p = "none"         -> 10

\* StartAsync got past step p.
Passed(p, failAt) == StepIndex(failAt) > StepIndex(p)

\* The failure point is on the path StartAsync takes.
OnPath(enableMrc, failAt) ==
    /\ failAt = "videoEffect" => enableMrc
    /\ failAt \in {"audioEffect", "audioTimeout"} => (enableMrc /\ _enableAudio)

\* The subscriptions StartAsync has registered when it stops at failAt:
\* add_Failed (line 473) and add_RecordLimitationExceeded (line 478) come
\* after the effects and before the start call.
SubscribesFailed(failAt) == Passed("addFailed", failAt)
SubscribesLimit(failAt) == Passed("addLimit", failAt)

StartCalls_StartFirst(enableMrc, failAt) ==
    (IF enableMrc /\ Passed("sink", failAt) THEN <<"AddVideoEffectAsync">> ELSE <<>>)
    \o (IF enableMrc /\ _enableAudio /\ Passed("videoEffect", failAt)
        THEN <<"AddAudioEffectAsync">> ELSE <<>>)
    \o (IF Passed("makeAction", failAt) THEN <<"StartRecordToCustomSinkAsync">> ELSE <<>>)
    \o (IF Passed("extension", failAt) THEN <<"add_Failed">> ELSE <<>>)
    \o (IF Passed("addFailed", failAt) THEN <<"add_RecordLimitationExceeded">> ELSE <<>>)

StartCalls(enableMrc, failAt) ==
    (IF enableMrc /\ Passed("sink", failAt) THEN <<"AddVideoEffectAsync">> ELSE <<>>)
    \o (IF enableMrc /\ _enableAudio /\ Passed("videoEffect", failAt)
        THEN <<"AddAudioEffectAsync">> ELSE <<>>)
    \o (IF Passed("extension", failAt) THEN <<"add_Failed">> ELSE <<>>)
    \o (IF Passed("addFailed", failAt) THEN <<"add_RecordLimitationExceeded">> ELSE <<>>)
    \o (IF Passed("makeAction", failAt) THEN <<"StartRecordToCustomSinkAsync">> ELSE <<>>)

\* CaptureEngineImpl::StartAsync(enableMrc, connection, action).
StartAsync(enableMrc, conn, failAt) ==
    LET args == [enableMrc |-> enableMrc, conn |-> conn, failAt |-> failAt,
                 device |-> _mediaCapture]
        d == _mediaCapture
        attachV == enableMrc /\ Passed("videoEffect", failAt)
        attachA == enableMrc /\ _enableAudio /\ Passed("audioEffect", failAt)
        tF == nextSink + 1
        tL == nextSink + 1
    IN
    /\ Alive
    /\ IF conn = "null"
       THEN \* NULL_CHK(connection)
            /\ failAt = "none"
            /\ Returns("StartAsync", args, "E_INVALIDARG", <<>>, FALSE)
            /\ UNCHANGED <<session, platform>>
       ELSE IF _mediaCapture = 0
       THEN \* _mediaCapture->get_VideoDeviceController on a null ComPtr (line 363)
            /\ failAt = "none"
            /\ \E r \in UndefinedOutcomes : Returns("StartAsync", args, r, <<>>, FALSE)
            /\ UNCHANGED <<session, platform>>
       ELSE /\ OnPath(enableMrc, failAt)
            /\ nextSink' = IF Passed("sink", failAt) THEN nextSink + 1 ELSE nextSink
            /\ _videoEffectAdded' = (_videoEffectAdded \/ attachV)
            /\ _audioEffectAdded' = (_audioEffectAdded \/ attachA)
            /\ _enableMrc' = (_enableMrc \/ (enableMrc /\ Passed("audioEffect", failAt)))
            /\ videoFx' = [videoFx EXCEPT ![d] = @ \/ attachV]
            /\ audioFx' = [audioFx EXCEPT ![d] = @ \/ attachA \/ failAt = "audioTimeout"]
            /\ failedSubs' = [failedSubs EXCEPT ![d] =
                                 IF SubscribesFailed(failAt) THEN @ \cup {tF} ELSE @]
            /\ limitSubs' = [limitSubs EXCEPT ![d] =
                                 IF SubscribesLimit(failAt) THEN @ \cup {tL} ELSE @]
            /\ IF failAt = "none"
               THEN /\ startOps' = Append(startOps, [sink |-> nextSink + 1, pc |-> "pending",
                                                  arg |-> 0])
                    /\ _failedEventToken' = <<tF>>
                    /\ _recordLimitExceededEventToken' = <<tL>>
               ELSE UNCHANGED <<startOps, _failedEventToken, _recordLimitExceededEventToken>>
            /\ Returns("StartAsync", args, IF failAt = "none" THEN "S_OK" ELSE "E_FAIL",
                       StartCalls(enableMrc, failAt), FALSE)
            /\ UNCHANGED <<_isInitialized, _enableAudio, _captureStarted, _mediaCapture,
                           _networkMediaSink>>
            /\ UNCHANGED <<initOps, stopOps, nextDev>>
    /\ UNCHANGED <<logVars, negVars, asyncVars, eventVars>>

\* The startRecordAsync handler (lines 483-495) runs on a platform thread
\* without the session lock, so the session's other operations run between
\* its statements.  First statement (line 486).
StartCompletedFlag(i) ==
    /\ Alive
    /\ i \in 1..Len(startOps)
    /\ startOps[i].pc = "pending"
    /\ _captureStarted' = TRUE
    /\ startOps' = [startOps EXCEPT ![i].pc = "flagged"]
    /\ Returns("StartCompletedFlag", <<>>, "none", <<>>, FALSE)
    /\ UNCHANGED <<_isInitialized, _enableAudio, _enableMrc, _videoEffectAdded,
                   _audioEffectAdded, _mediaCapture, _networkMediaSink,
                   _failedEventToken, _recordLimitExceededEventToken>>
    /\ UNCHANGED <<failedSubs, limitSubs, videoFx, audioFx,
                   initOps, stopOps, nextDev, nextSink>>
    /\ UNCHANGED <<logVars, negVars, asyncVars, eventVars>>

\* Line 488 and the argument of line 490: the sink is stored and
\* _spSpatialCoordinateSystem.Get() is read.
StartCompletedSink(i) ==
    /\ Alive
    /\ i \in 1..Len(startOps)
    /\ startOps[i].pc = "flagged"
    /\ _networkMediaSink' = startOps[i].sink
    /\ startOps' = [startOps EXCEPT ![i].pc = "stored",
                                    ![i].arg = _spSpatialCoordinateSystem]
    /\ Returns("StartCompletedSink", <<>>, "none", <<>>, FALSE)
    /\ UNCHANGED <<_isInitialized, _enableAudio, _enableMrc, _videoEffectAdded,
                   _audioEffectAdded, _captureStarted, _mediaCapture,
                   _failedEventToken, _recordLimitExceededEventToken>>
    /\ UNCHANGED <<failedSubs, limitSubs, videoFx, audioFx,
                   initOps, stopOps, nextDev, nextSink>>
    /\ UNCHANGED <<logVars, negVars, asyncVars, eventVars>>

\* The HRESULT the handler hands to spInitAction->Completed (line 492).
StartCompletedHr(asyncStatus) == "S_OK"

\* The rest of the handler (lines 490-494): the call of the sink's
\* put_SpatialCoordinateSystem with the reference read before, and
\* spInitAction->Completed(S_OK).  asyncStatus is the status of the start
\* operation the handler was invoked with; no statement of the handler reads
\* it, and it is recorded with the handler's result.
StartCompletedSpatial(i, asyncStatus) ==
    /\ Alive
    /\ i \in 1..Len(startOps)
    /\ startOps[i].pc = "stored"
    /\ sinkSpatial' = [sinkSpatial EXCEPT ![_networkMediaSink] = startOps[i].arg]
    /\ startOps' = RemoveAt(startOps, i)
    /\ Returns("StartCompletedSpatial", [asyncStatus |-> asyncStatus],
               StartCompletedHr(asyncStatus), <<>>, FALSE)
    /\ UNCHANGED session
    /\ UNCHANGED <<failedSubs, limitSubs, videoFx, audioFx,
                   initOps, stopOps, nextDev, nextSink>>
    /\ UNCHANGED <<_spSpatialCoordinateSystem, _evtClosed, closedInvoked>>
    /\ UNCHANGED <<logVars, negVars, asyncVars>>

(* ------------------------------ StopAsync ----------------------------- *)
\* CaptureEngineImpl::StopAsync.  stopOk: StopRecordAsync starts; putOk:
\* put_Completed registers stopAsyncCB.
StopAsync(stopOk, putOk) ==
    /\ Alive
    /\ IF ~_captureStarted
       THEN /\ Returns("StopAsync", <<>>, "S_OK", <<>>, FALSE)
            /\ UNCHANGED stopOps
       ELSE IF _mediaCapture = 0
       THEN /\ Returns("StopAsync", <<>>, "S_OK", <<>>, FALSE)
            /\ UNCHANGED stopOps
       ELSE /\ stopOps' = IF stopOk /\ putOk
                          THEN Append(stopOps, [dev |-> _mediaCapture])
                          ELSE stopOps
            /\ Returns("StopAsync", [stopOk |-> stopOk, putOk |-> putOk], "S_OK",
                       <<"StopRecordAsync">>, FALSE)
    /\ UNCHANGED session
    /\ UNCHANGED <<failedSubs, limitSubs, videoFx, audioFx,
                   initOps, startOps, nextDev, nextSink>>
    /\ UNCHANGED <<logVars, negVars, asyncVars, eventVars>>

\* stopAsyncCB: the completion of StopRecordAsync runs Close under the lock.
StopCompleted(i, out) ==
    /\ Alive
    /\ i \in 1..Len(stopOps)
    /\ out \in CloseOutcomes
    /\ CloseBody(out)
    /\ stopOps' = RemoveAt(stopOps, i)
    /\ Returns("StopCompleted", <<>>, "S_OK",
               IF _mediaCapture = 0 THEN <<>> ELSE CloseCalls, TRUE)
    /\ UNCHANGED <<_isInitialized, _enableAudio, _enableMrc, _videoEffectAdded,
                   _audioEffectAdded, _networkMediaSink, _failedEventToken,
                   _recordLimitExceededEventToken>>
    /\ UNCHANGED <<initOps, startOps, nextDev, nextSink>>
    /\ UNCHANGED <<logVars, negVars, asyncVars, eventVars>>

(* --------------------------- Closed event ----------------------------- *)
\* CaptureEngineImpl::add_Closed (lines 146-158): _evtClosed.Add.
add_Closed(h) ==
    /\ Alive
    /\ h \notin _evtClosed
    /\ _evtClosed' = _evtClosed \cup {h}
    /\ Returns("add_Closed", [handler |-> h], "S_OK", <<>>, FALSE)
    /\ UNCHANGED <<session, platform>>
    /\ UNCHANGED <<_spSpatialCoordinateSystem, sinkSpatial, closedInvoked>>
    /\ UNCHANGED <<logVars, negVars, asyncVars>>

\* CaptureEngineImpl::remove_Closed (lines 160-168): _evtClosed.Remove.
remove_Closed(h) ==
    /\ Alive
    /\ h \in _evtClosed
    /\ _evtClosed' = _evtClosed \ {h}
    /\ Returns("remove_Closed", [handler |-> h], "S_OK", <<>>, FALSE)
    /\ UNCHANGED <<session, platform>>
    /\ UNCHANGED <<_spSpatialCoordinateSystem, sinkSpatial, closedInvoked>>
    /\ UNCHANGED <<logVars, negVars, asyncVars>>

\* _evtClosed.InvokeAll(spThis.Get()) (lines 555, 563): every registered
\* handler is invoked once.
InvokeAll == [h \in Handlers |-> IF h \in _evtClosed THEN 1 ELSE 0]

\* No handler of the Closed event is invoked.
InvokeNone == [h \in Handlers |-> 0]

\* CaptureEngineImpl::OnMediaCaptureFailed (lines 547-556), called by the
\* platform through a subscription of add_Failed.  messageOk:
\* capturedFailedArgs->get_Message succeeds (IFR, line 552).
OnMediaCaptureFailed(messageOk) ==
    /\ Alive
    /\ \E dev \in Devs : failedSubs[dev] # {}
    /\ closedInvoked' = IF messageOk THEN InvokeAll ELSE InvokeNone
    /\ Returns("OnMediaCaptureFailed", [messageOk |-> messageOk],
               IF messageOk THEN "S_OK" ELSE "E_FAIL", <<>>, FALSE)
    /\ UNCHANGED <<session, platform>>
    /\ UNCHANGED <<_spSpatialCoordinateSystem, sinkSpatial, _evtClosed>>
    /\ UNCHANGED <<logVars, negVars, asyncVars>>

\* CaptureEngineImpl::OnRecordLimitationExceeded (lines 559-564), called by
\* the platform through a subscription of add_RecordLimitationExceeded.
OnRecordLimitationExceeded ==
    /\ Alive
    /\ \E dev \in Devs : limitSubs[dev] # {}
    /\ closedInvoked' = InvokeAll
    /\ Returns("OnRecordLimitationExceeded", <<>>, "S_OK", <<>>, FALSE)
    /\ UNCHANGED <<session, platform>>
    /\ UNCHANGED <<_spSpatialCoordinateSystem, sinkSpatial, _evtClosed>>
    /\ UNCHANGED <<logVars, negVars, asyncVars>>

\* CaptureEngineImpl::put_SpatialCoordinateSystem (lines 187-204), under the
\* session lock, which the startRecordAsync handler does not take.
put_SpatialCoordinateSystem(pCoordinateSystem) ==
    /\ Alive
    /\ IF pCoordinateSystem = 0
       THEN \* NULL_CHK(pCoordinateSystem)
            /\ Returns("put_SpatialCoordinateSystem", [ref |-> pCoordinateSystem],
                       "E_POINTER", <<>>, FALSE)
            /\ UNCHANGED <<_spSpatialCoordinateSystem, sinkSpatial>>
       ELSE /\ _spSpatialCoordinateSystem' = pCoordinateSystem
            /\ sinkSpatial' = IF _networkMediaSink # 0
                              THEN [sinkSpatial EXCEPT ![_networkMediaSink] = pCoordinateSystem]
                              ELSE sinkSpatial
            /\ Returns("put_SpatialCoordinateSystem", [ref |-> pCoordinateSystem],
                       "S_OK", <<>>, FALSE)
    /\ UNCHANGED <<session, platform>>
    /\ UNCHANGED <<_evtClosed, closedInvoked>>
    /\ UNCHANGED <<logVars, negVars, asyncVars>>

\* The Closed event: its clients and the platform's notifications.
ClosedNext ==
    \/ \E h \in Handlers : add_Closed(h)
    \/ \E h \in Handlers : remove_Closed(h)
    \/ \E messageOk \in BOOLEAN : OnMediaCaptureFailed(messageOk)
    \/ OnRecordLimitationExceeded

(* ----------------------- session specification ------------------------ *)
\* The session's transitions are not reentrant (a documented precondition, not
\* enforced): InitAsync is not called while an initialization is pending, and
\* StartAsync is not called while a start is pending or the session streams.
InitCallable == Len(initOps) = 0
StartCallable == Len(startOps) = 0 /\ ~_captureStarted

\* The client's calls and the platform's completions, with at most maxInits
\* devices and maxStarts sinks created and maxStops stop operations pending.
CapNextWithin(maxInits, maxStarts, maxStops) ==
    \/ \E enableAudio \in BOOLEAN, failAt \in InitFailPoints, profiles \in SessionProfiles :
           InitCallable /\ nextDev < maxInits /\ InitAsync(enableAudio, failAt, profiles)
    \/ \E i \in 1..Len(initOps), status \in TerminalStatus, ok \in BOOLEAN,
          asserts \in BOOLEAN : InitCompleted(i, status, ok, asserts)
    \/ \E enableMrc \in BOOLEAN, conn \in {"null", "connection"}, failAt \in StartFailPoints :
           StartCallable /\ nextSink < maxStarts /\ StartAsync(enableMrc, conn, failAt)
    \/ \E i \in 1..Len(startOps) : StartCompletedFlag(i)
    \/ \E i \in 1..Len(startOps) : StartCompletedSink(i)
    \/ \E i \in 1..Len(startOps), asyncStatus \in TerminalStatus :
           StartCompletedSpatial(i, asyncStatus)
    \/ \E stopOk \in BOOLEAN, putOk \in BOOLEAN :
           Len(stopOps) < maxStops /\ StopAsync(stopOk, putOk)
    \/ \E i \in 1..Len(stopOps), out \in CloseOutcomes : StopCompleted(i, out)
    \/ \E out \in CloseOutcomes : Close(out)
    \/ \E out \in CloseOutcomes : Uninitialize(out)

CapNext == CapNextWithin(MaxInits, MaxStarts, MaxStops)

CapNextOne == CapNextWithin(OneInit, OneStart, OneStop)

(* ----------------------------- CreateAsync ---------------------------- *)
\* CaptureEngineStaticsImpl::CreateAsync up to the return of InitAsync (lines
\* 576-580) on the engine it made.
CreateInitAsync(enableAudio, failAt, profiles) ==
    /\ lastOp = "none"
    /\ InitAsync(enableAudio, failAt, profiles)

\* initHandler's last step (line 341): spInitAction->Completed(hr) with the hr
\* the handler's steps left.
InitActionCompleted ==
    /\ Alive
    /\ lastOp = "InitCompleted"
    /\ completedCalls = 0
    /\ Completed(lastResult)

\* CreateAsync after InitAsync returned S_OK (lines 582-593): StartAsyncThen
\* on the action InitAsync returned.
CreateRegisters ==
    /\ Alive
    /\ nextDev > 0
    /\ StartAsyncThen("op")

\* The init handler and CreateAsync have let go of the action: the last
\* reference is released and ~AsyncCompleteImpl runs.
InitActionReleased ==
    /\ completedCalls = 1
    /\ thenArg = "op"
    /\ Destroy

\* The continuation of CreateAsync (lines 588-593): what each of its runs
\* handed to SetCaptureEngineComplete.
CreateCompletions ==
    [c \in 1..Len(continuations) |->
        [hr |-> continuations[c].hr, engine |-> "spCaptureEngine"]]

\* The client closes the engine the create operation handed to it.
CloseCreated(out) ==
    /\ continuations # <<>>
    /\ Close(out)

\* The client releases the engine: ~CaptureEngineImpl runs Uninitialize
\* (lines 57-60).
ReleaseCreated(out) ==
    /\ continuations # <<>>
    /\ Uninitialize(out)

CreateNext ==
    \/ \E enableAudio \in BOOLEAN, failAt \in InitFailPoints, profiles \in SessionProfiles :
           CreateInitAsync(enableAudio, failAt, profiles)
    \/ \E i \in 1..Len(initOps), status \in TerminalStatus, ok \in BOOLEAN,
          asserts \in BOOLEAN : InitCompleted(i, status, ok, asserts)
    \/ InitActionCompleted
    \/ CreateRegisters
    \/ InitActionReleased
    \/ \E out \in CloseOutcomes : CloseCreated(out)
    \/ \E out \in CloseOutcomes : ReleaseCreated(out)

(* --------------------------- specifications --------------------------- *)
Init == LogInit /\ CapInit /\ NegInit /\ AsyncInit /\ EventInit

Next == LogNext \/ CapNext

\* The log sink alone.
LogSpec == Init /\ [][LogNext]_vars

\* The log sink when the platform completes every operation it started.
LogSpecOk ==
    /\ Init
    /\ [][LogNextOk]_vars
    /\ WF_vars(OnFileOpenedOk)
    /\ WF_vars(StoreCompletedOk)
    /\ WF_vars(FlushCompletedOk)

\* The capture session alone.
Spec == Init /\ [][CapNext]_vars

\* The capture session with one device and one start.
OneSpec == Init /\ [][CapNextOne]_vars

\* The capture session with one device and one start, the clients of its
\* Closed event and the platform's notifications.
NotifyNext == CapNextOne \/ ClosedNext

NotifySpec == Init /\ [][NotifyNext]_vars

\* The capture session with one device and one start, and a client that sets
\* the spatial reference at any time.
SpatialNext ==
    \/ CapNextOne
    \/ \E pCoordinateSystem \in 0..MaxRefs : put_SpatialCoordinateSystem(pCoordinateSystem)

SpatialSpec == Init /\ [][SpatialNext]_vars

\* Profile negotiation alone, over every list of profiles.
NegInitState == LogInit /\ CapInit /\ NegInitAny /\ AsyncInit /\ EventInit

NegSpec == NegInitState /\ [][NegotiateProfile]_vars

\* A composed task, a continuation and a blocking wait on it.
AsyncSpec == Init /\ [][AsyncNext]_vars

\* CreateAsync: the init action, its completion by the init handler and the
\* continuation CreateAsync registers on it.
CreateSpec == Init /\ [][CreateNext]_vars

(* ======================= claims on the log sink ======================= *)

\* C1: with every platform call and completion succeeding, every message Log
\* accepted is eventually in the backing store exactly once and in append
\* order: the store is always a prefix of the accepted messages (no
\* duplication, no reordering) and the k-th accepted message is eventually
\* stored (no loss).
C1_LoggedStoredOnceInOrder ==
    /\ [](IsPrefix(store, logged))
    /\ \A k \in 1..MaxLog : (Len(logged) >= k) ~> (Len(store) >= k)

\* C1 witness: all MaxLog messages are in the store, in order.
C1_Witness == Len(store) = MaxLog /\ store = logged /\ Len(ops) = 0

C3_FlagClearedAfterFailure == lastFlush = "failed" => ~m_savingToFile

\* C4 (the claim as stated): Log with a non-null message returns success.
C4_LogNeverFails == logArg \notin {"none", "null"} => logResult = "S_OK"

(* ==================== claims on the capture session =================== *)

\* C5 (the claim as stated): StartAsync with a connection on a session that
\* holds no device fails with InvalidState and attaches no effect, sets no
\* effect flag and registers no subscription.
C5_StartBeforeInitIsInvalidState ==
    [][ (lastOp' = "StartAsync" /\ lastArgs'.conn = "connection" /\ _mediaCapture = 0)
        => /\ lastResult' = "E_INVALIDSTATE"
           /\ UNCHANGED <<_videoEffectAdded, _audioEffectAdded, videoFx, audioFx,
                          failedSubs, limitSubs>> ]_vars

\* C6 (the claim as stated): when StartAsync with enableMrc returns because an
\* effect could not be attached, the session has no subscription to the
\* failed and record-limit-exceeded events.
C6_NoSubscriptionAfterEffectFailure ==
    (/\ lastOp = "StartAsync"
     /\ lastArgs.enableMrc
     /\ lastArgs.failAt \in {"videoEffect", "audioEffect", "audioTimeout"})
    => SubCount = 0

\* C7 (the claim as stated): when StartAsync fails after registering a
\* subscription and before the start call was issued successfully, no
\* subscription remains.
C7_NoSubscriptionLeakOnStartFailure ==
    (/\ lastOp = "StartAsync"
     /\ lastArgs.failAt \in {"addLimit", "makeAction", "startRecord", "putCompleted"})
    => SubCount = 0

\* C8: a Close called right after a run of Close returns S_OK, issues no
\* platform call and changes nothing of the session or the platform.
C8_SecondCloseIsNoOp ==
    [][ (closes = 1 /\ closes' = 2 /\ lastOp' = "Close")
        => /\ lastResult' = "S_OK"
           /\ calls' = <<>>
           /\ session' = session
           /\ platform' = platform ]_vars

\* C8 witness: Close ran twice in a row on a session that had streamed.
C8_Witness ==
    closes = 2 /\ lastOp = "Close" /\ _networkMediaSink # 0 /\ _mediaCapture = 0

\* C9 (the claim as stated, for the states in which no start handler is in
\* the middle of its run): while _captureStarted is set the sink reference is
\* non-null and both event subscriptions are active on the held device.
C9_StreamingHasSinkAndSubscriptions ==
    (_captureStarted /\ \A i \in 1..Len(startOps) : startOps[i].pc = "pending")
    => /\ _networkMediaSink # 0
       /\ _mediaCapture # 0
       /\ failedSubs[_mediaCapture] # {}
       /\ limitSubs[_mediaCapture] # {}

\* C10 (the claim as stated): once Close has run after the session streamed
\* and the device handle is released, the sink reference is null and no
\* subscription remains.
C10_ClosedHasNoSinkNoSubscription ==
    (streamed /\ closes > 0 /\ _mediaCapture = 0)
    => (_networkMediaSink = 0 /\ SubCount = 0)

\* C11 (the claim as stated): after a run of Close the video-effect-attached
\* and audio-effect-attached flags are both false.
C11_CloseClearsEffectFlags ==
    closes > 0 => (~_videoEffectAdded /\ ~_audioEffectAdded)

\* C12: when the enumeration of video devices returns none, or audio is
\* requested and the enumeration of audio devices returns none, InitAsync
\* returns ERROR_DEVICE_NOT_CONNECTED, issues no platform initialize call,
\* leaves no operation pending and stores no device handle (a session that
\* held none holds none afterwards).
C12_NoDeviceFailsInit ==
    [][ (lastOp' = "InitAsync" /\ lastArgs'.failAt \in {"videoDevice", "audioDevice"})
        => /\ lastResult' = "ERROR_DEVICE_NOT_CONNECTED"
           /\ calls' = <<>>
           /\ initOps' = <<>>
           /\ _mediaCapture' = _mediaCapture
           /\ (_mediaCapture = 0 => _mediaCapture' = 0) ]_vars

\* C12 witness: audio was requested, no audio device exists, InitAsync
\* returned the error on a session without a device.
C12_Witness ==
    /\ lastOp = "InitAsync" /\ lastArgs.failAt = "audioDevice" /\ lastArgs.enableAudio
    /\ lastResult = "ERROR_DEVICE_NOT_CONNECTED"
    /\ _mediaCapture = 0 /\ initOps = <<>>

\* C13 (the claim as stated): when a step of InitAsync fails, or the platform
\* initialize call completes with Error or Canceled, or a step of the
\* completion handler fails, the result is a failure and no device handle is
\* stored.
C13_InitFailureIsCarried ==
    [][ /\ (lastOp' = "InitAsync" /\ lastArgs'.failAt # "none")
           => (lastResult' \notin {"S_OK", "crash"} /\ _mediaCapture' = _mediaCapture)
        /\ (lastOp' = "InitCompleted"
            /\ (lastArgs'.status # "Completed" \/ ~lastArgs'.ok))
           => (lastResult' \notin {"S_OK", "crash"} /\ _mediaCapture' = _mediaCapture)
      ]_vars

\* C14 (the claim as stated): when no description of the device's profiles
\* meets the predicate, InitAsync fails with ProfileNegotiationFailed and
\* issues no platform initialize call.
C14_NoProfileFailsInit ==
    (lastOp = "InitAsync" /\ lastArgs.failAt = "none" /\ ~lastArgs.captureProfileFound)
    => (lastResult = "ProfileNegotiationFailed" /\ calls = <<>>)

(* ================= claims on profile negotiation ====================== *)

C16_NullOperationIsInvalidArg ==
    /\ [][ (thenArg = "none" /\ thenArg' = "null")
           => /\ thenResult' = "E_INVALIDARG"
              /\ UNCHANGED <<opHandler, opFired, continuations>> ]_vars
    /\ [](thenArg = "null" => (continuations = <<>> /\ opHandler # "then"))

\* C16 witness: after the call with a null operation the task was completed
\* and destroyed, and the continuation did not run.
C16_Witness ==
    /\ thenArg = "null" /\ thenResult = "E_INVALIDARG"
    /\ completedCalls > 0 /\ opDestroyed /\ continuations = <<>>

\* C17 (the claim as stated): the continuation of a StartAsyncThen that
\* succeeded runs at most once, has run once the operation is finished and
\* destroyed, and receives S_OK when the status is Completed and a failure
\* when it is Error or Canceled.
C17_ContinuationOnceWithUnifiedResult ==
    /\ Len(continuations) <= 1
    /\ (thenArg = "op" /\ thenResult = "S_OK" /\ opDestroyed) => Len(continuations) = 1
    /\ \A k \in 1..Len(continuations) :
           /\ continuations[k].status = "Completed" => continuations[k].hr = "S_OK"
           /\ continuations[k].status \in {"Error", "Canceled"}
              => continuations[k].hr # "S_OK"

\* C18 (the claim as stated): a SyncWait that was woken by an alertable
\* interruption has returned only after the operation left the Started state
\* (the timeout had not run out, or the wait would have ended with
\* WAIT_TIMEOUT).
C18_AlertedWaitWaitsAgain ==
    (waitReturn # <<>> /\ waitReturn[1].dwWait = "WAIT_IO_COMPLETION")
    => waitReturn[1].status # "Started"

\* C19 (the claim as stated, for the waits no interruption ended): SyncWait
\* returns S_OK only when the operation is Completed, a failure when the
\* operation is in Error or Canceled, and a failure when the timeout ran out
\* on a pending operation.
C19_SyncWaitReturnsUnifiedResult ==
    (waitReturn # <<>> /\ waitReturn[1].dwWait # "WAIT_IO_COMPLETION")
    => /\ waitReturn[1].hr = "S_OK" => waitReturn[1].status = "Completed"
       /\ waitReturn[1].status \in {"Error", "Canceled"} => waitReturn[1].hr # "S_OK"
       /\ (waitReturn[1].dwWait = "WAIT_TIMEOUT" /\ waitReturn[1].status = "Started")
          => waitReturn[1].hr # "S_OK"

\* C20: the status of a composed task changes only from Started; the
\* Completed call (or the destructor's Completed(E_UNEXPECTED)) that finds it
\* Started fixes it, to Completed for S_OK and to Error for a failure; later
\* calls leave it alone, so a Completed task never becomes a failed one; the
\* completed handler is invoked at most once.
C20_OutcomeChangesOnce ==
    /\ [][ /\ opStatus # "Started" => opStatus' = opStatus
           /\ (opStatus = "Started"
               /\ (completedCalls' # completedCalls \/ opDestroyed' # opDestroyed))
              => opStatus' = (IF lastHr' = "S_OK" THEN "Completed" ELSE "Error")
           /\ opFired' \in {opFired, opFired + 1} ]_vars
    /\ [](opFired <= 1)
    /\ [](opFired = 1 => opStatus # "Started")

\* C20 witness: a task completed with S_OK, completed again and destroyed is
\* still Completed and its handler ran once.
C20_Witness ==
    /\ opDestroyed /\ completedCalls = MaxCompleted /\ lastHr = "E_UNEXPECTED"
    /\ opStatus = "Completed" /\ opFired = 1

(* ======================== claims on CreateAsync ======================= *)
\* C21: no missed wake-up between the completion of the init action by the
\* init handler (line 341) and the registration of CreateAsync's continuation
\* (line 586).  In either order the continuation runs exactly once and hands
\* SetCaptureEngineComplete the hr of the init handler and the engine; a
\* continuation registered after the completion runs at registration.
C21_NoMissedWakeUp ==
    /\ [](Len(CreateCompletions) <= 1)
    /\ []((completedCalls = 1 /\ thenArg = "op")
          => /\ Len(CreateCompletions) = 1
             /\ lastOp = "InitCompleted"
                => CreateCompletions[1] = [hr |-> lastResult, engine |-> "spCaptureEngine"])
    /\ [][ (completedCalls = 1 /\ thenArg = "none" /\ thenArg' = "op")
           => Len(continuations') = Len(continuations) + 1 ]_vars

\* C21 witness: the init handler completed the action with a failure before
\* CreateAsync registered, and the continuation ran with that failure.
C21_Witness ==
    /\ lastOp = "InitCompleted" /\ lastResult = "E_FAIL"
    /\ completedCalls = 1 /\ thenArg = "op" /\ opHandler = "then"
    /\ Len(continuations) = 1 /\ continuations[1].hr = "E_FAIL"

(* ================== claims on the session (continued) ================= *)
\* C22: whenever StartAsync issues StartRecordToCustomSinkAsync, it has
\* called add_Failed and add_RecordLimitationExceeded before it, and both
\* handlers are registered on the device when StartAsync returns.
C22_SubscribedBeforeStart ==
    (lastOp = "StartAsync"
     /\ \E c \in 1..Len(calls) : calls[c] = "StartRecordToCustomSinkAsync")
    => /\ \A c \in 1..Len(calls) :
              calls[c] = "StartRecordToCustomSinkAsync"
              => /\ \E a \in 1..(c - 1) : calls[a] = "add_Failed"
                 /\ \E b \in 1..(c - 1) : calls[b] = "add_RecordLimitationExceeded"
       /\ failedSubs[lastArgs.device] # {}
       /\ limitSubs[lastArgs.device] # {}

\* C22 witness: StartAsync issued the start call, which is pending, with both
\* subscriptions registered.
C22_Witness ==
    /\ lastOp = "StartAsync" /\ lastResult = "S_OK" /\ Len(startOps) = 1
    /\ calls = <<"add_Failed", "add_RecordLimitationExceeded", "StartRecordToCustomSinkAsync">>
    /\ failedSubs[_mediaCapture] # {} /\ limitSubs[_mediaCapture] # {}

\* C23 (the claim as stated): when the start operation completes with Error
\* or Canceled, the handler, once it has run, has not made the session
\* streaming, has stored no sink and has completed the task StartAsync
\* returned with a failure.
C23_StartFailureIsCarried ==
    (lastOp = "StartCompletedSpatial" /\ lastArgs.asyncStatus # "Completed")
    => /\ ~_captureStarted
       /\ _networkMediaSink = 0
       /\ lastResult # "S_OK"

\* C24 (the claim as stated): a failed notification and a
\* record-limit-exceeded notification each invoke every handler registered
\* on the Closed event exactly once and change nothing of the session or of
\* its platform subscriptions.
C24_NotificationsHandledAlike ==
    [][ lastOp' \in {"OnMediaCaptureFailed", "OnRecordLimitationExceeded"}
        => /\ \A h \in Handlers : closedInvoked'[h] = (IF h \in _evtClosed THEN 1 ELSE 0)
           /\ UNCHANGED <<session, platform, _evtClosed>> ]_vars

\* C25: a run of Close on a session that holds a device, whichever of its
\* platform calls fail, issues all of them (both unsubscribe calls, the
\* clear-effects call of each attached effect, the device's Close), releases
\* the device handle, clears the streaming flag and returns S_OK.
C25_TeardownNeverHalts ==
    [][ (closes' > 0 /\ lastOp' \in {"Close", "Uninitialize", "StopCompleted"}
         /\ _mediaCapture # 0)
        => /\ calls' = <<"remove_Failed", "remove_RecordLimitationExceeded">>
                       \o (IF _videoEffectAdded THEN <<"ClearEffectsAsync(VideoRecord)">>
                           ELSE <<>>)
                       \o (IF _audioEffectAdded THEN <<"ClearEffectsAsync(Audio)">> ELSE <<>>)
                       \o <<"Close">>
           /\ _mediaCapture' = 0
           /\ ~_captureStarted'
           /\ lastResult' = "S_OK" ]_vars

\* C25 witness: Close ran on a streaming session with the video effect
\* attached; the effect is still on the device (ClearEffectsAsync failed) and
\* a handler is still registered (remove_Failed failed), and the device
\* handle is released all the same.
C25_Witness ==
    /\ lastOp = "Close" /\ lastResult = "S_OK" /\ closes = 1 /\ streamed
    /\ Len(calls) = 4
    /\ _videoEffectAdded /\ videoFx[1] /\ failedSubs[1] # {}
    /\ _mediaCapture = 0 /\ ~_captureStarted

\* C26 (the claim as stated): StopAsync on a session that is not streaming
\* returns S_OK, issues no call and changes nothing; on a streaming session it
\* issues StopRecordAsync and does not run Close itself; Close runs in the
\* completion of the stop call, whose result completes the task.
C26_StopIsNoOpUnlessStreaming ==
    [][ /\ lastOp' = "StopAsync"
           => /\ closes' = 0
              /\ IF ~_captureStarted
                 THEN /\ lastResult' = "S_OK"
                      /\ calls' = <<>>
                      /\ UNCHANGED <<session, platform>>
                 ELSE calls' = <<"StopRecordAsync">>
        /\ lastOp' = "StopCompleted" => (closes' > 0 /\ lastResult' = "S_OK") ]_vars

\* C27 (the claim as stated): when StartAsync fails after it attached the
\* video effect, every effect that is attached to the device has its
\* attached flag set, so that the next Close clears it.
C27_NoHalfAttachedEffect ==
    (lastOp = "StartAsync" /\ lastResult = "E_FAIL" /\ lastArgs.device # 0
     /\ lastArgs.enableMrc /\ Passed("videoEffect", lastArgs.failAt))
    => /\ videoFx[lastArgs.device] => _videoEffectAdded
       /\ audioFx[lastArgs.device] => _audioEffectAdded

\* C28 (the claim as stated): once the start handler has finished and the
\* session is streaming, the spatial reference set on the session's sink is
\* the reference last stored in the session, however the calls of
\* put_SpatialCoordinateSystem interleaved with the handler.
C28_SinkHoldsCurrentSpatialReference ==
    (_captureStarted /\ streamed /\ startOps = <<>> /\ _networkMediaSink # 0)
    => sinkSpatial[_networkMediaSink] = _spSpatialCoordinateSystem

\* C29 (the claim as stated, in the form a finite run refutes): a task that
\* StopAsync handed back has a completion behind it: when StopAsync returns
\* on a streaming session, a stop operation with the session's handler is
\* pending, whose completion tears the session down and completes the task.
C29_StopTaskHasPendingCompletion ==
    (lastOp = "StopAsync" /\ _captureStarted) => Len(stopOps) > 0

====
